---- MODULE Spec2Model ----
(***************************************************************************)
(* Model of the parallelizer worker (fixtures/parallelizer/remote.py):     *)
(* the SlaveManager plugin, its request/reply channel to the master, the   *)
(* pull loop (_iter_nodes), the pairing generator (_test_generator), the   *)
(* run loop, shutdown and the handling of SIGQUIT by the worker script.    *)
(*                                                                         *)
(* The control thread is modelled by pc.  Every send_event call is a send  *)
(* step (sock.send_json) followed by the blocking receive                  *)
(* (sock.recv_json), whose reply the master chooses.                       *)
(***************************************************************************)
EXTENDS Integers, Sequences, FiniteSets, TLC

(***************************************************************************)
(* Bounds                                                                  *)
(***************************************************************************)
NodeIds == {"a", "b", "c"}

\* longest non-empty batch the master hands out in one need_tests reply
MaxBatch == 2
\* number of identifiers the master hands out in a session, over all batches
MaxHanded == 3
\* number of reports the engine relays for each test
MaxReports == 1
\* number of handle_quit calls in a session
MaxQuitCalls == 1

(***************************************************************************)
(* JSON values travelling on the channel, in one uniform shape:            *)
(* strings, lists of strings and null.  Python's None is JSON null.        *)
(***************************************************************************)
Str(x) == [kind |-> "str", s |-> x, ids |-> <<>>]

List(l) == [kind |-> "list", s |-> "", ids |-> l]

None == [kind |-> "null", s |-> "", ids |-> <<>>]

Die == Str("die")

Ack == Str("ack")

\* a reply that is neither of the two sentinels: a one-character string
Other == Str("z")

\* Python truth value of a reply ("if not node_ids")
FalsyNever(v) == FALSE

FalsyNoneOnly(v) == v = None

Falsy(v) == v = None \/ v = List(<<>>) \/ v = Str("")

\* "for nodeid in node_ids": a list yields its elements, a string its
\* characters (the strings that get here have one character)
Iterate(v) == IF v.kind = "list" THEN v.ids ELSE <<v.s>>

\* non-empty batches of identifiers the master may hand out
Batches == UNION {[1..n -> NodeIds] : n \in 1..MaxBatch}

\* replies of the master to a need_tests request
NeedTestsReplies == {Die, Ack, None, Other, List(<<>>)} \cup {List(b) : b \in Batches}

\* replies of the master to every other request
EventReplies == {Die, Ack, Other}

\* session.items: the collected tests, each with its nodeid (an item is its
\* position in the list; item 0 stands for None): every nodeid collected, one
\* not collected, and one collected twice
ItemLists == {<<"a", "b", "c">>, <<"a", "b">>, <<"b", "a", "b">>}

VARIABLES
    pc,             \* control point of the worker's thread
    outstanding,    \* requests sent on the socket whose reply was not read
    sent,           \* event names of the requests sent, in order
    payload,        \* payload of the last request sent
    recv,           \* last reply read by send_event
    result,         \* what the last completed send_event call returned
    items,          \* session.items (nodeid of each collected test)
    collectonly,    \* config.option.collectonly
    collection,     \* self.collection: nodeid -> item
    batch,          \* _iter_nodes: node_ids being iterated
    pos,            \* _iter_nodes: number of node_ids taken from batch
    run_node,       \* _test_generator: run_node
    next_node,      \* _test_generator: next_node
    pairs,          \* pairs yielded by _test_generator, in order
    executed,       \* items passed to pytest_runtest_protocol, in order
    replies,        \* values returned by the need_tests calls, in order
    phase,          \* progress of the test being run by the engine
    quit_signaled,  \* self.quit_signaled
    nquit,          \* number of handle_quit calls so far
    loop_exit,      \* how the run loop ended: "", "exhausted" or "break"
    handler,        \* disposition of SIGQUIT: "default" or "handle_quit"
    exc,            \* exception that ended the thread, "" if none
    message_ret,    \* what the last completed call of message returned
    report,         \* the report the engine passes to pytest_runtest_logreport
    excrepr,        \* the error the engine passes to pytest_internalerror
    logged,         \* the text given to self.log.error, <<>> if none
    configuration,        \* Vm.configuration: the VMConfiguration as loaded
    other_configuration,  \* the copy of it that the caller edits
    changes,              \* what get_changes_to_fill returned, <<>> before
    call                  \* the last call on other_configuration

vars == <<pc, outstanding, sent, payload, recv, result, items, collectonly,
          collection, batch, pos, run_node, next_node, pairs, executed,
          replies, phase, quit_signaled, nquit, loop_exit, handler, exc,
          message_ret, report, excrepr, logged,
          configuration, other_configuration, changes, call>>

\* the variables of the channel
chan == <<outstanding, sent, payload>>

\* the variables of the two generators
gen == <<batch, pos, run_node, next_node, pairs, replies>>

\* the variables no operation of the coordinator changes after collection
env == <<items, collectonly, handler>>

\* the arguments of the relay hooks and the local log
hook == <<report, excrepr, logged>>

\* the variables of the VM configurations
vm == <<configuration, other_configuration, changes, call>>

\* item.nodeid, "None" for the 'no next' marker
NodeIdOf(item) == IF item \in DOMAIN items THEN items[item] ELSE "None"

KeyError == -1

\* self.collection[nodeid]
LookupOrNone(coll, nodeid) == IF nodeid \in DOMAIN coll THEN coll[nodeid] ELSE 0

Lookup(coll, nodeid) == IF nodeid \in DOMAIN coll THEN coll[nodeid] ELSE KeyError

\* {item.nodeid: item for item in session.items}: a later item replaces an
\* earlier one with the same nodeid
CollectionShifted(its) == [n \in {its[i] : i \in DOMAIN its} |-> ((CHOOSE i \in DOMAIN its : its[i] = n /\ \A j \in DOMAIN its : its[j] = n => j <= i) % Len(its)) + 1]

CollectionOf(its) == [n \in {its[i] : i \in DOMAIN its} |-> CHOOSE i \in DOMAIN its : its[i] = n /\ \A j \in DOMAIN its : its[j] = n => j <= i]

\* the orders in which dict.keys() may list the keys
KeyOrders(coll) == {s \in [1..Cardinality(DOMAIN coll) -> DOMAIN coll] : \A i, j \in DOMAIN s : i # j => s[i] # s[j]}

\* sock.send_json(kwargs)
SockSend(n) == n + 1

\* sock.recv_json()
SockRecvSkipped(n) == n

SockRecv(n) == n - 1

\* send_event, first half: the request goes out
Send(name, arg) ==
    /\ outstanding' = SockSend(outstanding)
    /\ sent' = Append(sent, name)
    /\ payload' = arg

\* send_event: "if recv == 'die': raise SystemExit()"
DiesMistyped(r) == r = Str("Die")

Dies(r) == r = Die

\* send_event: "if recv != 'ack': return recv" (else falls off: None)
SendEventResultVerbatim(r) == r

SendEventResult(r) == IF r # Ack THEN r ELSE None

\* message has not been called yet
Unset == Str("unset")

(***************************************************************************)
(* Reports (serialize_report).  A report is its __dict__: a value for each *)
(* attribute.  A value is a string, a py.path.local, an object with a      *)
(* toterminal method, some other object, or None; v is its text.           *)
(***************************************************************************)
Val(k, t) == [kind |-> k, v |-> t]

NoneVal == Val("none", "")

Values == {Val("str", "t"), Val("path", "t"), Val("repr", "t"), Val("obj", "t"), NoneVal}

\* str(x)
ToStr(x) == Val("str", x.v)

\* the reports the engine may pass: with or without a result attribute
Reports == [{"longrepr", "result", "fspath"} -> Values] \cup [{"longrepr", "fspath"} -> Values]

PlainReport == [longrepr |-> NoneVal, fspath |-> Val("str", "t")]

\* serialize_report: "if isinstance(d[name], local): ... elif name == 'result'"
SerializeField(name, x) == IF x.kind = "path" THEN ToStr(x) ELSE IF name = "result" THEN NoneVal ELSE x

\* serialize_report(rep)
serialize_report(rep) ==
    LET d == [rep EXCEPT !["longrepr"] = IF @.kind = "repr" THEN ToStr(@) ELSE @]
    IN  [name \in DOMAIN d |-> SerializeField(name, d[name])]

(***************************************************************************)
(* Error texts (pytest_internalerror).  A text is its lines, a line is a   *)
(* sequence of tokens (<<>> is a blank line); a text has at least one line.*)
(***************************************************************************)
\* longest error text, in lines
MaxLines == 2

Marker == "INTERNALERROR> "

LineSet == {<<>>, <<"x">>, <<"y">>}

Texts == UNION {[1..n -> LineSet] : n \in 1..MaxLines}

\* 'INTERNALERROR> {}'.format(text)
Prefixed(text) == <<(<<Marker>> \o text[1])>> \o Tail(text)

\* text.strip(), for a text whose first line is not blank: the blank lines
\* at the end go
RECURSIVE Strip(_)
Strip(text) == IF Len(text) > 1 /\ text[Len(text)] = <<>> THEN Strip(SubSeq(text, 1, Len(text) - 1)) ELSE text

\* text.splitlines()[-1]
LastLine(text) == text[Len(text)]

\* pytest_internalerror: msg
Msg(exr) == Prefixed(exr)

\* pytest_internalerror: short_tb
ShortTb(exr) == <<Marker>> \o LastLine(Strip(Msg(exr)))

Init ==
    /\ pc = "collection_finish"
    /\ outstanding = 0
    /\ sent = <<>>
    /\ payload = None
    /\ recv = None
    /\ result = None
    /\ items \in ItemLists
    /\ collectonly \in BOOLEAN
    /\ collection = <<>>
    /\ batch = <<>>
    /\ pos = 0
    /\ run_node = 0
    /\ next_node = 0
    /\ pairs = <<>>
    /\ executed = <<>>
    /\ replies = <<>>
    /\ phase = 0
    /\ quit_signaled = FALSE
    /\ nquit = 0
    /\ loop_exit = ""
    /\ handler = "default"
    /\ exc = ""
    /\ message_ret = Unset
    /\ report = PlainReport
    /\ excrepr = <<(<<"x">>)>>
    /\ logged = <<>>
    /\ configuration = <<>>
    /\ other_configuration = <<>>
    /\ changes = <<>>
    /\ call = <<>>

(***************************************************************************)
(* Collection                                                              *)
(***************************************************************************)
\* pytest_collection_finish: records the items by nodeid and sends the keys
pytest_collection_finish ==
    /\ pc = "collection_finish"
    /\ collection' = CollectionOf(items)
    /\ \E keys \in KeyOrders(CollectionOf(items)) : Send("collectionfinish", List(keys))
    /\ pc' = "collectionfinish_wait"
    /\ UNCHANGED <<recv, result, message_ret, hook, vm, gen, executed, phase, quit_signaled, nquit, loop_exit, exc, env>>

(***************************************************************************)
(* Run loop, pairing generator and pull loop                               *)
(***************************************************************************)
\* pytest_runtestloop, entry: the for statement starts _test_generator, which
\* creates node_iter and asks it for the first node
pytest_runtestloop ==
    /\ pc = "runtestloop"
    /\ pc' = "pull_first"
    /\ UNCHANGED <<chan, recv, result, message_ret, hook, vm, collection, gen, executed, phase, quit_signaled, nquit, loop_exit, exc, env>>

\* _test_generator is handed a node by node_iter: the first one becomes
\* run_node, every later one is yielded as the next of run_node
test_generator_got_eager(node) ==
    /\ run_node' = node
    /\ next_node' = 0
    /\ pairs' = Append(pairs, <<node, 0>>)
    /\ pc' = "body"

test_generator_got(node) ==
    IF pc = "pull_first"
    THEN /\ run_node' = node
         /\ pc' = "pull_next"
         /\ UNCHANGED <<next_node, pairs>>
    ELSE /\ next_node' = node
         /\ pairs' = Append(pairs, <<run_node, node>>)
         /\ pc' = "body"
         /\ UNCHANGED run_node

\* self.collection[nodeid] raises KeyError inside next(node_iter): the
\* exception leaves _test_generator before its yield statement
lookup_raises_after_yield ==
    /\ pc' = "raised"
    /\ exc' = "KeyError"
    /\ pairs' = IF pc = "pull_next" THEN Append(pairs, <<run_node, 0>>) ELSE pairs
    /\ UNCHANGED <<run_node, next_node>>

lookup_raises ==
    /\ pc' = "raised"
    /\ exc' = "KeyError"
    /\ UNCHANGED <<run_node, next_node, pairs>>

\* _iter_nodes, one step: take the next nodeid of the batch and look it up,
\* or, when the batch is used up, send need_tests
iter_nodes ==
    /\ pc \in {"pull_first", "pull_next"}
    /\ IF pos < Len(batch)
       THEN LET node == Lookup(collection, batch[pos + 1]) IN
            /\ pos' = pos + 1
            /\ IF node = KeyError
               THEN lookup_raises
               ELSE /\ test_generator_got(node)
                    /\ UNCHANGED exc
            /\ UNCHANGED <<chan, batch, replies>>
       ELSE /\ Send("need_tests", None)
            /\ pc' = IF pc = "pull_first" THEN "need_first_wait" ELSE "need_next_wait"
            /\ UNCHANGED <<gen, exc>>
    /\ UNCHANGED <<recv, result, message_ret, hook, vm, collection, executed, phase, quit_signaled, nquit, loop_exit, env>>

\* _iter_nodes after the need_tests call returned node_ids
iter_nodes_reply(node_ids) ==
    /\ replies' = Append(replies, node_ids)
    /\ IF Falsy(node_ids)
       THEN \* break: node_iter is exhausted
            IF pc = "need_first_wait"
            THEN \* next(node_iter) raises StopIteration inside _test_generator,
                 \* which (Python 2) ends the generator before any yield
                 /\ pc' = "loop_return"
                 /\ loop_exit' = "exhausted"
                 /\ UNCHANGED <<batch, pos, run_node, next_node, pairs>>
            ELSE \* yield run_node, None
                 /\ pairs' = Append(pairs, <<run_node, 0>>)
                 /\ next_node' = 0
                 /\ pc' = "body"
                 /\ UNCHANGED <<batch, pos, run_node, loop_exit>>
       ELSE /\ batch' = Iterate(node_ids)
            /\ pos' = 0
            /\ pc' = IF pc = "need_first_wait" THEN "pull_first" ELSE "pull_next"
            /\ UNCHANGED <<run_node, next_node, pairs, loop_exit>>
    /\ UNCHANGED <<phase, quit_signaled, message_ret>>

\* "for item, nextitem in ...": the item of the pair that is run
RunItemNext(pair) == pair[2]

RunItem(pair) == pair[1]

\* pytest_runtestloop, loop body for the pair just yielded
runtestloop_body ==
    /\ pc = "body"
    /\ LET item == RunItem(pairs[Len(pairs)]) IN
       IF collectonly
       THEN /\ Send("message", Str(NodeIdOf(item)))
            /\ pc' = "message_wait"
            /\ UNCHANGED <<executed, phase>>
       ELSE \* config.hook.pytest_runtest_protocol(item=item, nextitem=nextitem)
            /\ executed' = Append(executed, item)
            /\ phase' = 0
            /\ pc' = "in_test"
            /\ UNCHANGED chan
    /\ UNCHANGED <<recv, result, message_ret, hook, vm, collection, gen, quit_signaled, nquit, loop_exit, exc, env>>

\* the engine, running a test, calls pytest_runtest_logstart
pytest_runtest_logstart ==
    /\ pc = "in_test"
    /\ phase = 0
    /\ Send("runtest_logstart", Str(NodeIdOf(executed[Len(executed)])))
    /\ pc' = "logstart_wait"
    /\ UNCHANGED <<recv, result, message_ret, hook, vm, collection, gen, executed, phase, quit_signaled, nquit, loop_exit, exc, env>>

\* the engine, running a test, calls pytest_runtest_logreport
pytest_runtest_logreport ==
    /\ pc = "in_test"
    /\ phase \in 1..MaxReports
    /\ Send("runtest_logreport", serialize_report(report))
    /\ pc' = "logreport_wait"
    /\ UNCHANGED <<recv, result, message_ret, hook, vm, collection, gen, executed, phase, quit_signaled, nquit, loop_exit, exc, env>>

\* pytest_runtest_protocol returns to the run loop
runtest_protocol_return ==
    /\ pc = "in_test"
    /\ phase = MaxReports + 1
    /\ pc' = "check_quit"
    /\ UNCHANGED <<chan, recv, result, message_ret, hook, vm, collection, gen, executed, phase, quit_signaled, nquit, loop_exit, exc, env>>

\* _test_generator, resumed after "yield run_node, next_node":
\* run_node = next_node
AdvanceRunNodeStale(run, nxt) == run

AdvanceRunNode(run, nxt) == nxt

\* pytest_runtestloop: "if self.quit_signaled:" (then break)
BreakLoopNever(q) == FALSE

BreakLoop(q) == q

\* pytest_runtestloop: "if self.quit_signaled: break", else the for statement
\* resumes _test_generator
runtestloop_check_quit ==
    /\ pc = "check_quit"
    /\ IF BreakLoop(quit_signaled)
       THEN /\ pc' = "loop_return"
            /\ loop_exit' = "break"
            /\ UNCHANGED run_node
       ELSE IF next_node = 0
            THEN \* resumed after "yield run_node, None": the generator ends
                 /\ pc' = "loop_return"
                 /\ loop_exit' = "exhausted"
                 /\ UNCHANGED run_node
            ELSE \* run_node = next_node, then the next node is asked for
                 /\ run_node' = AdvanceRunNode(run_node, next_node)
                 /\ pc' = "pull_next"
                 /\ UNCHANGED loop_exit
    /\ UNCHANGED <<chan, recv, result, message_ret, hook, vm, collection, batch, pos, next_node, pairs, replies, executed, phase, quit_signaled, nquit, exc, env>>

\* pytest_runtestloop: return True; the engine then calls pytest_sessionfinish
runtestloop_return ==
    /\ pc = "loop_return"
    /\ pc' = "sessionfinish"
    /\ UNCHANGED <<chan, recv, result, message_ret, hook, vm, collection, gen, executed, phase, quit_signaled, nquit, loop_exit, exc, env>>

(***************************************************************************)
(* Shutdown and quit                                                       *)
(***************************************************************************)
\* pytest_sessionfinish -> shutdown: self.message('shutting down')
pytest_sessionfinish ==
    /\ pc = "sessionfinish"
    /\ Send("message", Str("shutting down"))
    /\ pc' = "shutdown_message_wait"
    /\ UNCHANGED <<recv, result, message_ret, hook, vm, collection, gen, executed, phase, quit_signaled, nquit, loop_exit, exc, env>>

\* shutdown: self.send_event('shutdown')
shutdown_send_skipped ==
    /\ pc = "shutdown_send"
    /\ pc' = "shutdown_wait"
    /\ outstanding' = SockSend(outstanding)
    /\ UNCHANGED <<sent, payload, recv, result, message_ret, hook, vm, collection, gen, executed, phase, quit_signaled, nquit, loop_exit, exc, env>>

shutdown_send ==
    /\ pc = "shutdown_send"
    /\ Send("shutdown", None)
    /\ pc' = "shutdown_wait"
    /\ UNCHANGED <<recv, result, message_ret, hook, vm, collection, gen, executed, phase, quit_signaled, nquit, loop_exit, exc, env>>

\* handle_quit called as a method while the engine runs a test: it first
\* sends a message to the master
handle_quit ==
    /\ pc = "in_test"
    /\ nquit < MaxQuitCalls
    /\ nquit' = nquit + 1
    /\ Send("message", Str("shutting down after the current test due to QUIT signal"))
    /\ pc' = "quit_message_wait"
    /\ UNCHANGED <<recv, result, message_ret, hook, vm, collection, gen, executed, phase, quit_signaled, loop_exit, exc, env>>

\* handle_quit: self.quit_signaled = True
HandleQuitFlag == TRUE

\* shutdown: self.quit_signaled = True
ShutdownFlagCleared == FALSE

ShutdownFlag == TRUE

(***************************************************************************)
(* The blocking receive of send_event and the return to its caller         *)
(***************************************************************************)
WaitPcs == {"collectionfinish_wait", "need_first_wait", "need_next_wait", "message_wait", "logstart_wait", "logreport_wait", "internalerror_wait", "quit_message_wait", "shutdown_message_wait", "shutdown_wait"}

\* the send_event calls made by message
MessageWaits == {"message_wait", "quit_message_wait", "shutdown_message_wait"}

\* message: "self.send_event('message', ...)" is a statement, its value is
\* dropped and message returns None
MessageResultPassed(res) == res

MessageResult(res) == None

\* number of identifiers in the first n need_tests replies
RECURSIVE Handed(_)
Handed(n) == IF n = 0 THEN 0 ELSE Handed(n - 1) + (IF replies[n] \in {None, List(<<>>)} THEN 0 ELSE Len(Iterate(replies[n])))

\* what the master may answer to the request that is outstanding
MasterReplies ==
    IF pc \in {"need_first_wait", "need_next_wait"}
    THEN {r \in NeedTestsReplies :
            /\ r \notin {Die, Ack, None, List(<<>>)} => Handed(Len(replies)) + Len(Iterate(r)) <= MaxHanded
            /\ Len(replies) > MaxHanded => r = Die}
    ELSE EventReplies

\* the caller of send_event goes on with the value returned
send_event_return(res) ==
    CASE pc \in {"need_first_wait", "need_next_wait"} ->
            /\ iter_nodes_reply(res)
       [] pc = "collectionfinish_wait" ->
            /\ pc' = "runtestloop"
            /\ UNCHANGED <<gen, phase, quit_signaled, loop_exit, message_ret>>
       [] pc = "message_wait" ->
            \* message returns to the loop body
            /\ message_ret' = MessageResult(res)
            /\ pc' = "check_quit"
            /\ UNCHANGED <<gen, phase, quit_signaled, loop_exit>>
       [] pc = "logstart_wait" ->
            /\ pc' = "in_test"
            /\ phase' = 1
            /\ UNCHANGED <<gen, quit_signaled, loop_exit, message_ret>>
       [] pc = "logreport_wait" ->
            /\ pc' = "in_test"
            /\ phase' = phase + 1
            /\ UNCHANGED <<gen, quit_signaled, loop_exit, message_ret>>
       [] pc = "internalerror_wait" ->
            /\ pc' = "internalerror_done"
            /\ UNCHANGED <<gen, phase, quit_signaled, loop_exit, message_ret>>
       [] pc = "quit_message_wait" ->
            \* message returns to handle_quit: self.quit_signaled = True
            /\ message_ret' = MessageResult(res)
            /\ quit_signaled' = HandleQuitFlag
            /\ pc' = "in_test"
            /\ UNCHANGED <<gen, phase, loop_exit>>
       [] pc = "shutdown_message_wait" ->
            \* message returns to shutdown
            /\ message_ret' = MessageResult(res)
            /\ pc' = "shutdown_send"
            /\ UNCHANGED <<gen, phase, quit_signaled, loop_exit>>
       [] pc = "shutdown_wait" ->
            \* shutdown: self.quit_signaled = True
            /\ quit_signaled' = ShutdownFlag
            /\ pc' = "main_done"
            /\ UNCHANGED <<gen, phase, loop_exit, message_ret>>

\* send_event, second half: the reply arrives; "die" raises SystemExit, which
\* no hook of the coordinator catches
send_event_recv ==
    /\ pc \in WaitPcs
    /\ \E r \in MasterReplies :
          /\ outstanding' = SockRecv(outstanding)
          /\ recv' = r
          /\ IF Dies(r)
             THEN /\ pc' = "exited"
                  /\ exc' = "SystemExit"
                  /\ UNCHANGED <<result, message_ret, gen, phase, quit_signaled, loop_exit>>
             ELSE /\ result' = SendEventResult(r)
                  /\ send_event_return(SendEventResult(r))
                  /\ UNCHANGED exc
    /\ UNCHANGED <<sent, payload, collection, executed, nquit, env, hook, vm>>

(***************************************************************************)
(* The worker script and the quit signal                                   *)
(***************************************************************************)
\* __main__: signal.signal(signal.SIGQUIT, slave_manager.handle_quit), the
\* statement after config.hook.pytest_cmdline_main(config=config)
register_handler ==
    /\ pc = "main_done"
    /\ handler' = "handle_quit"
    /\ pc' = "registered"
    /\ UNCHANGED <<chan, recv, result, message_ret, hook, vm, items, collectonly, collection, gen, executed, phase, quit_signaled, nquit, loop_exit, exc>>

\* the script ends
script_end ==
    /\ pc = "registered"
    /\ pc' = "finished"
    /\ UNCHANGED <<chan, recv, result, message_ret, hook, vm, collection, gen, executed, phase, quit_signaled, nquit, loop_exit, exc, env>>

Live == pc \notin {"exited", "raised", "killed", "finished"}

\* SIGQUIT is delivered to the process.  Until the handler is registered the
\* default action ends the process; once it is registered Python calls
\* handle_quit(signum, frame), which does not match handle_quit(self)
sigquit ==
    /\ Live
    /\ IF handler = "default"
       THEN /\ pc' = "killed"
            /\ UNCHANGED exc
       ELSE /\ pc' = "raised"
            /\ exc' = "TypeError"
    /\ UNCHANGED <<chan, recv, result, message_ret, hook, vm, collection, gen, executed, phase, quit_signaled, nquit, loop_exit, env>>

(***************************************************************************)
(* The relay hooks on their own: the engine passes any report to           *)
(* pytest_runtest_logreport during a test, or any error text to            *)
(* pytest_internalerror                                                    *)
(***************************************************************************)
\* pytest_internalerror: logs the full text, sends the short one
pytest_internalerror ==
    /\ pc = "internalerror"
    /\ logged' = Msg(excrepr)
    /\ Send("internalerror", ShortTb(excrepr))
    /\ pc' = "internalerror_wait"
    /\ UNCHANGED <<recv, result, message_ret, report, excrepr, vm, collection, gen, executed, phase, quit_signaled, nquit, loop_exit, exc, env>>

\* the first test of the batch ["a", "b"] is running, logstart was relayed
InitHooks ==
    /\ pc \in {"in_test", "internalerror"}
    /\ outstanding = 0
    /\ sent = <<"collectionfinish", "need_tests", "runtest_logstart">>
    /\ payload = Str("a")
    /\ recv = Ack
    /\ result = None
    /\ items = <<"a", "b", "c">>
    /\ collectonly = FALSE
    /\ collection = CollectionOf(<<"a", "b", "c">>)
    /\ batch = <<"a", "b">>
    /\ pos = 2
    /\ run_node = 1
    /\ next_node = 2
    /\ pairs = <<(<<1, 2>>)>>
    /\ executed = <<1>>
    /\ replies = <<List(<<"a", "b">>)>>
    /\ phase = 1
    /\ quit_signaled = FALSE
    /\ nquit = 0
    /\ loop_exit = ""
    /\ handler = "default"
    /\ exc = ""
    /\ message_ret = Unset
    /\ logged = <<>>
    /\ configuration = <<>>
    /\ other_configuration = <<>>
    /\ changes = <<>>
    /\ call = <<>>
    /\ IF pc = "in_test"
       THEN report \in Reports /\ excrepr = <<(<<"x">>)>>
       ELSE report = PlainReport /\ excrepr \in Texts

NextHooks ==
    \/ pytest_runtest_logreport
    \/ pytest_internalerror
    \/ send_event_recv

SpecHooks == InitHooks /\ [][NextHooks]_vars

(***************************************************************************)
(* VM configurations (cfme/infrastructure/virtual_machines.py): a loaded   *)
(* configuration, a copy of it that the caller edits, and the changes      *)
(* that lead from the first to the second.                                 *)
(***************************************************************************)
MaxDisks == 3

MaxCalls == 3

\* the factor between 'GB' and 'MB' in size_mb and mem_size_mb
MbPerGb == 1024

\* filename=None: a disk that was added and not yet created
NoFilename == "None"

\* the namedtuple VMDisk
VMDisk(filename, size, size_unit, type, mode) ==
    [filename |-> filename, size |-> size, size_unit |-> size_unit, type |-> type, mode |-> mode]

\* VMDisk.size_mb
size_mb(disk) == IF disk.size_unit = "GB" THEN disk.size * MbPerGb ELSE disk.size

\* VMDisk.__eq__: by filename if both have one, else by type, mode, size_mb
DiskEq(self, other) ==
    IF self.filename # NoFilename /\ other.filename # NoFilename
    THEN self.filename = other.filename
    ELSE /\ self.type = other.type
         /\ self.mode = other.mode
         /\ size_mb(self) = size_mb(other)

\* disk in disks
DiskIn(disk, disks) == \E i \in DOMAIN disks : DiskEq(disks[i], disk)

\* VMHardware(cores_per_socket, sockets, mem_size, mem_size_unit)
VMHardware(cores_per_socket, sockets, mem_size, mem_size_unit) ==
    [cores_per_socket |-> cores_per_socket, sockets |-> sockets, mem_size |-> mem_size, mem_size_unit |-> mem_size_unit]

\* VMHardware.mem_size_mb
mem_size_mb(hw) == IF hw.mem_size_unit = "GB" THEN hw.mem_size * MbPerGb ELSE hw.mem_size

\* VMHardware.__eq__
HwEq(self, other) ==
    /\ self.cores_per_socket = other.cores_per_socket
    /\ self.sockets = other.sockets
    /\ mem_size_mb(self) = mem_size_mb(other)

\* VMConfiguration.__eq__
ConfigEq(self, other) ==
    /\ HwEq(self.hw, other.hw)
    /\ Len(self.disks) = Len(other.disks)
    /\ \A i \in DOMAIN self.disks : DiskIn(self.disks[i], other.disks)

\* _load: the hardware comes in 'MB', the disks in 'GB' with their filenames
LoadedHardware == {VMHardware(1, s, m, "MB") : s \in {1, 2}, m \in {MbPerGb}}

LoadedDisks ==
    { <<VMDisk("f1", 1, "GB", "thin", "persistent")>>,
      <<VMDisk("f1", 1, "GB", "thin", "persistent"), VMDisk("f2", 2, "GB", "thick", "persistent")>>,
      <<VMDisk("f1", 1, "GB", "thin", "persistent"), VMDisk("f2", 1, "GB", "thin", "persistent")>> }

\* what callers pass to add_disk, delete_disk and VMHardware
DiskSizes == {1, MbPerGb}

SizeUnits == {"GB", "MB"}

DiskTypes == {"thin", "thick"}

Filenames == {NoFilename, "f1", "f2", "f3"}

\* index=None is <<>>, index=i is <<i>>
Indexes == {<<>>} \cup {<<i>> : i \in -1..MaxDisks}

Hardwares == {VMHardware(1, s, m, u) : s \in {1, 2}, m \in {1, MbPerGb}, u \in SizeUnits}

\* the record of a call on other_configuration
Call(n, op, filename, index, before, raised) ==
    [n |-> n, op |-> op, filename |-> filename, index |-> index, before |-> before, raised |-> raised]

\* VMConfiguration.copy
copy(self) == [hw |-> self.hw, disks |-> self.disks]

vm_copy ==
    /\ pc = "vm_loaded"
    /\ other_configuration' = copy(configuration)
    /\ pc' = "vm_edit"
    /\ UNCHANGED <<configuration, changes, call>>
    /\ UNCHANGED <<chan, recv, result, message_ret, hook, collection, gen, executed, phase, quit_signaled, nquit, loop_exit, exc, env>>

\* other_configuration.hw = VMHardware(...)
set_hw ==
    /\ pc = "vm_edit"
    /\ call.n < MaxCalls
    /\ \E hw \in Hardwares :
         /\ other_configuration' = [other_configuration EXCEPT !.hw = hw]
         /\ call' = Call(call.n + 1, "hw", NoFilename, <<>>, other_configuration.disks, "")
    /\ UNCHANGED <<pc, configuration, changes>>
    /\ UNCHANGED <<chan, recv, result, message_ret, hook, collection, gen, executed, phase, quit_signaled, nquit, loop_exit, exc, env>>

\* VMConfiguration.add_disk
add_disk ==
    /\ pc = "vm_edit"
    /\ call.n < MaxCalls
    /\ Len(other_configuration.disks) < MaxDisks
    /\ \E size \in DiskSizes, size_unit \in SizeUnits, type \in DiskTypes :
         LET disk == VMDisk(NoFilename, size, size_unit, type, "persistent") IN
         /\ other_configuration' = [other_configuration EXCEPT !.disks = Append(@, disk)]
         /\ call' = Call(call.n + 1, "add_disk", NoFilename, <<>>, other_configuration.disks, "")
    /\ UNCHANGED <<pc, configuration, changes>>
    /\ UNCHANGED <<chan, recv, result, message_ret, hook, collection, gen, executed, phase, quit_signaled, nquit, loop_exit, exc, env>>

\* del disks[at], at counted from 1
RemoveAt(disks, at) == SubSeq(disks, 1, at - 1) \o SubSeq(disks, at + 1, Len(disks))

\* disks.remove(disk): the first element that equals disk goes
Remove(disks, disk) ==
    RemoveAt(disks, CHOOSE i \in DOMAIN disks : DiskEq(disks[i], disk) /\ \A j \in 1..(i - 1) : ~DiskEq(disks[j], disk))

\* the position of disks[index], 0 if the index is out of range
PositionOf(disks, i) ==
    IF i >= 0 /\ i < Len(disks) THEN i + 1
    ELSE IF i < 0 /\ -i <= Len(disks) THEN Len(disks) + i + 1
    ELSE 0

\* the truth value of the index argument
IndexGiven(index) == index # <<>> /\ index[1] # 0

\* VMConfiguration.delete_disk: the disks afterwards
DeleteDiskResult(disks, filename, index) ==
    IF filename # NoFilename
    THEN LET found == SelectSeq(disks, LAMBDA disk : disk.filename = filename) IN
         IF found = <<>> THEN disks ELSE Remove(disks, found[1])
    ELSE IF IndexGiven(index) /\ PositionOf(disks, index[1]) # 0
    THEN RemoveAt(disks, PositionOf(disks, index[1]))
    ELSE disks

\* VMConfiguration.delete_disk: the exception raised, "" if none
DeleteDiskRaises(disks, filename, index) ==
    IF filename # NoFilename
    THEN IF SelectSeq(disks, LAMBDA disk : disk.filename = filename) = <<>> THEN "IndexError" ELSE ""
    ELSE IF IndexGiven(index)
    THEN IF PositionOf(disks, index[1]) = 0 THEN "IndexError" ELSE ""
    ELSE "TypeError"

delete_disk ==
    /\ pc = "vm_edit"
    /\ call.n < MaxCalls
    /\ \E filename \in Filenames, index \in Indexes :
         /\ other_configuration' = [other_configuration EXCEPT !.disks = DeleteDiskResult(@, filename, index)]
         /\ call' = Call(call.n + 1, "delete_disk", filename, index, other_configuration.disks,
                         DeleteDiskRaises(other_configuration.disks, filename, index))
    /\ UNCHANGED <<pc, configuration, changes>>
    /\ UNCHANGED <<chan, recv, result, message_ret, hook, collection, gen, executed, phase, quit_signaled, nquit, loop_exit, exc, env>>

\* the loop over self.disks + other_configuration.disks
RECURSIVE DiskChanges(_, _, _)
DiskChanges(disks, self, other) ==
    IF disks = <<>> THEN <<>>
    ELSE LET disk == Head(disks)
             rest == DiskChanges(Tail(disks), self, other) IN
         IF DiskIn(disk, self.disks) /\ ~DiskIn(disk, other.disks)
         THEN <<[action |-> "delete", disk |-> disk, delete_backing |-> None]>> \o rest
         ELSE IF ~DiskIn(disk, self.disks) /\ DiskIn(disk, other.disks)
         THEN <<[action |-> "add", disk |-> disk]>> \o rest
         ELSE rest

\* the keys of changes besides 'disks'
ChangedKeys(self, other) ==
    LET cpu == {key \in {"cores_per_socket", "sockets"} : self.hw[key] # other.hw[key]} IN
    cpu \cup (IF cpu # {} THEN {"cpu"} ELSE {})
        \cup (IF self.hw.mem_size # other.hw.mem_size \/ self.hw.mem_size_unit # other.hw.mem_size_unit
              THEN {"memory", "mem_size", "mem_size_unit"} ELSE {})

\* VMConfiguration.get_changes_to_fill
GetChangesToFill(self, other) ==
    [key \in {"disks"} \cup ChangedKeys(self, other) |->
        CASE key = "disks" -> DiskChanges(self.disks \o other.disks, self, other)
          [] key \in {"cpu", "memory"} -> TRUE
          [] key \in {"cores_per_socket", "sockets"} -> [kind |-> "str", v |-> other.hw[key]]
          [] key = "mem_size" -> other.hw.mem_size
          [] key = "mem_size_unit" -> other.hw.mem_size_unit]

get_changes_to_fill ==
    /\ pc = "vm_edit"
    /\ changes' = GetChangesToFill(configuration, other_configuration)
    /\ pc' = "vm_changes"
    /\ UNCHANGED <<configuration, other_configuration, call>>
    /\ UNCHANGED <<chan, recv, result, message_ret, hook, collection, gen, executed, phase, quit_signaled, nquit, loop_exit, exc, env>>

\* a configuration was loaded from the appliance; the coordinator is idle
InitVM ==
    /\ pc = "vm_loaded"
    /\ outstanding = 0
    /\ sent = <<>>
    /\ payload = None
    /\ recv = None
    /\ result = None
    /\ items = <<"a", "b", "c">>
    /\ collectonly = FALSE
    /\ collection = <<>>
    /\ batch = <<>>
    /\ pos = 0
    /\ run_node = 0
    /\ next_node = 0
    /\ pairs = <<>>
    /\ executed = <<>>
    /\ replies = <<>>
    /\ phase = 0
    /\ quit_signaled = FALSE
    /\ nquit = 0
    /\ loop_exit = ""
    /\ handler = "default"
    /\ exc = ""
    /\ message_ret = Unset
    /\ report = PlainReport
    /\ excrepr = <<(<<"x">>)>>
    /\ logged = <<>>
    /\ \E hw \in LoadedHardware, disks \in LoadedDisks : configuration = [hw |-> hw, disks |-> disks]
    /\ other_configuration = <<>>
    /\ changes = <<>>
    /\ call = Call(0, "", NoFilename, <<>>, <<>>, "")

NextVM ==
    \/ vm_copy
    \/ set_hw
    \/ add_disk
    \/ delete_disk
    \/ get_changes_to_fill

SpecVM == InitVM /\ [][NextVM]_vars

Next ==
    \/ pytest_collection_finish
    \/ pytest_runtestloop
    \/ iter_nodes
    \/ runtestloop_body
    \/ pytest_runtest_logstart
    \/ pytest_runtest_logreport
    \/ runtest_protocol_return
    \/ runtestloop_check_quit
    \/ runtestloop_return
    \/ pytest_sessionfinish
    \/ shutdown_send
    \/ handle_quit
    \/ send_event_recv
    \/ register_handler
    \/ script_end
    \/ sigquit

Spec == Init /\ [][Next]_vars

(***************************************************************************)
(* Properties                                                              *)
(***************************************************************************)
\* the pairs yielded, as pairs of nodeids
PairIds == [i \in DOMAIN pairs |-> <<NodeIdOf(pairs[i][1]), NodeIdOf(pairs[i][2])>>]

\* the identifiers handed out by the master so far
Received == UNION {{Iterate(replies[j])[k] : k \in DOMAIN Iterate(replies[j])} : j \in {i \in DOMAIN replies : replies[i] \notin {None, List(<<>>)}}}

\* number of need_tests requests sent
NeedTestsSent == Len(SelectSeq(sent, LAMBDA n : n = "need_tests"))

\* C1: the pairs yielded by _test_generator form a chain (each pair starts
\* with the item the previous pair ended with), no pair but the last has the
\* 'no next' marker, and once the pull stream has ended after at least one
\* batch the last pair yielded carries the marker.
C1_PairsChain ==
    /\ \A i \in 1..(Len(pairs) - 1) : pairs[i][2] # 0 /\ pairs[i + 1][1] = pairs[i][2]
    /\ (loop_exit = "exhausted" /\ Len(replies) >= 2) => (pairs # <<>> /\ pairs[Len(pairs)][2] = 0)

C1_Witness ==
    /\ loop_exit = "exhausted"
    /\ Len(replies) = 3
    /\ Len(pairs) >= 3
    /\ pairs[Len(pairs)][2] = 0

\* C2: a "die" reply raises SystemExit in send_event, whatever the request,
\* and after it the coordinator sends no request, begins no test and takes
\* no further step.
C2_DieTerminates ==
    [][/\ recv' = Die => (pc' = "exited" /\ exc' = "SystemExit")
       /\ recv = Die => (sent' = sent /\ executed' = executed /\ pc' = pc)]_vars

C2_Witness ==
    /\ recv = Die
    /\ pc = "exited"
    /\ executed # <<>>
    /\ sent[Len(sent)] = "runtest_logreport"

\* C3: a request is sent only when no request is outstanding, so at most one
\* request is ever outstanding, also when SIGQUIT arrives while a reply is
\* awaited or a test is running.
C3_SendRecvAlternate ==
    [][/\ outstanding \in {0, 1}
       /\ outstanding' \in {0, 1}
       /\ sent' # sent => (outstanding = 0 /\ outstanding' = 1)]_vars

C3_Witness ==
    /\ pc = "killed"
    /\ outstanding = 1
    /\ executed # <<>>

\* C4 (as claimed): delivery of SIGQUIT sets the quit flag and changes
\* nothing else, and the handler sends no request.
C4_SignalOnlySetsFlag ==
    [][/\ sigquit => (quit_signaled' /\ pc' = pc /\ exc' = exc)
       /\ handle_quit => sent' = sent]_vars

\* C5: setting the quit flag during a test leaves the test running; once the
\* flag is set no further test begins, and the check after the test leaves
\* the run loop.
C5_QuitAfterCurrentTest ==
    [][/\ (~quit_signaled /\ quit_signaled' /\ pc = "quit_message_wait") => (pc' = "in_test" /\ phase' = phase /\ executed' = executed)
       /\ quit_signaled => executed' = executed
       /\ (quit_signaled /\ runtestloop_check_quit) => (pc' = "loop_return" /\ loop_exit' = "break")]_vars

C5_Witness ==
    /\ quit_signaled
    /\ loop_exit = "break"
    /\ next_node # 0
    /\ pc = "loop_return"

\* C6: every test passed to the execution protocol has a nodeid that some
\* earlier need_tests reply of the session contained.
C6_ExecutedWereReceived ==
    \A i \in DOMAIN executed : NodeIdOf(executed[i]) \in Received

C6_Witness ==
    /\ Len(executed) >= 3
    /\ Len(replies) >= 2

\* C7: when the nodeid taken from a need_tests reply is not in the recorded
\* collection the lookup raises KeyError, which ends the thread (no hook
\* catches it), and only recorded items are ever yielded or executed.
C7_UnknownIdRaises ==
    /\ (pos > 0 /\ pos <= Len(batch) /\ batch[pos] \notin DOMAIN collection) => (pc = "raised" /\ exc = "KeyError")
    /\ \A i \in DOMAIN executed : executed[i] \in DOMAIN items
    /\ \A i \in DOMAIN pairs : pairs[i][1] \in DOMAIN items
    /\ exc = "KeyError" => pc = "raised"

C7_Witness ==
    /\ pc = "raised"
    /\ exc = "KeyError"
    /\ batch[pos] \notin DOMAIN collection
    /\ executed # <<>>

\* C8: send_event returns None for the reply "ack" and returns every reply
\* other than "ack" and "die" unchanged.
C8_SendEventResult ==
    /\ recv = Ack => result = None
    /\ recv \notin {Ack, Die} => result = recv

C8_Witness ==
    /\ recv = Ack
    /\ result = None
    /\ sent # <<>>
    /\ \E i \in DOMAIN replies : replies[i] = List(<<"a", "b">>)

\* C9: with a, b and c recorded and the need_tests replies ["a","b"], ["c"]
\* and []: the pairs yielded are (a,b), (b,c), (c,None), nothing more, and
\* three need_tests requests were sent.
C9_Example ==
    ({"a", "b", "c"} \subseteq DOMAIN collection /\ replies = <<List(<<"a", "b">>), List(<<"c">>), List(<<>>)>>)
        => (PairIds = <<(<<"a", "b">>), (<<"b", "c">>), (<<"c", "None">>)>> /\ NeedTestsSent = 3)

C9_Witness ==
    /\ {"a", "b", "c"} \subseteq DOMAIN collection
    /\ replies = <<List(<<"a", "b">>), List(<<"c">>), List(<<>>)>>
    /\ loop_exit = "exhausted"
    /\ pc = "finished"

\* C10: quit_signaled is false at construction and no step sets it back to
\* false once it is true.
C10_QuitFlagOneWay ==
    [][/\ pc = "collection_finish" => ~quit_signaled
       /\ quit_signaled => quit_signaled']_vars

C10_Witness ==
    /\ quit_signaled
    /\ nquit >= 1
    /\ pc = "main_done"

\* number of shutdown requests sent
ShutdownSent == Len(SelectSeq(sent, LAMBDA n : n = "shutdown"))

\* C11: shutdown is sent at most once and only after the run loop has ended;
\* when the session has finished after a normal end of the run loop it was
\* sent exactly once and the quit flag is set, and shutdown() sets the flag
\* only after the reply to the shutdown request.
C11_ShutdownOnce ==
    /\ ShutdownSent <= 1
    /\ loop_exit = "" => ShutdownSent = 0
    /\ (pc \in {"main_done", "registered", "finished"} /\ loop_exit = "exhausted") => (ShutdownSent = 1 /\ quit_signaled)
    /\ (nquit = 0 /\ pc \notin {"main_done", "registered", "finished", "raised", "killed"}) => ~quit_signaled

C11_Witness ==
    /\ pc = "main_done"
    /\ loop_exit = "exhausted"
    /\ ShutdownSent = 1
    /\ quit_signaled
    /\ nquit = 0
    /\ Len(executed) >= 2

\* C12 (as claimed): when SIGQUIT has been delivered during the run loop and
\* no reply was "die", the process does not end before a shutdown request
\* was sent and the quit flag set.
C12_SignalThenShutdown ==
    (pc = "killed" /\ NeedTestsSent >= 1 /\ loop_exit = "") => (ShutdownSent >= 1 /\ quit_signaled)

\* C13: when the first need_tests reply is empty or None, no pair is
\* yielded, no test is executed, one need_tests request was sent and the
\* run loop has ended normally, without an exception from the pull loop.
C13_NoWork ==
    (replies # <<>> /\ replies[1] \in {None, List(<<>>)})
        => (pairs = <<>> /\ executed = <<>> /\ NeedTestsSent = 1 /\ Len(replies) = 1 /\ loop_exit = "exhausted" /\ exc # "KeyError")

C13_Witness ==
    /\ replies = <<List(<<>>)>>
    /\ pairs = <<>>
    /\ loop_exit = "exhausted"
    /\ pc = "sessionfinish"

\* C14: only the last need_tests reply can be empty or None, no need_tests
\* request follows such a reply, and there is one request for every reply
\* (plus the one still unanswered or answered "die"): k non-empty batches
\* and the empty reply make k + 1.
C14_StopPulling ==
    /\ \A i \in 1..(Len(replies) - 1) : replies[i] \notin {None, List(<<>>)}
    /\ NeedTestsSent = Len(replies) + (IF sent # <<>> /\ sent[Len(sent)] = "need_tests" /\ (outstanding = 1 \/ pc = "exited") THEN 1 ELSE 0)
    /\ (replies # <<>> /\ replies[Len(replies)] \in {None, List(<<>>)}) => NeedTestsSent = Len(replies)

C14_Witness ==
    /\ Len(replies) = 3
    /\ replies[3] = None
    /\ NeedTestsSent = 3
    /\ pc = "finished"

\* the identifiers of the first n need_tests replies, in the order received
RECURSIVE HandedIds(_)
HandedIds(n) == IF n = 0 THEN <<>> ELSE HandedIds(n - 1) \o (IF replies[n] \in {None, List(<<>>)} THEN <<>> ELSE Iterate(replies[n]))

\* the nodeids of the tests executed, in order
ExecutedIds == [i \in DOMAIN executed |-> NodeIdOf(executed[i])]

Pulled == Handed(Len(replies)) - (Len(batch) - pos) - (IF exc = "KeyError" THEN 1 ELSE 0)

\* C16: the i-th item is yielded for execution only when item i+1 has been
\* pulled or the pull stream has ended, so at most one pulled item is
\* pending and the request after the last item of a batch precedes the
\* execution of that item.
C16_OneBehind ==
    /\ Len(pairs) <= Pulled
    /\ Pulled <= Len(pairs) + 1
    /\ Len(executed) <= Len(pairs)
    /\ (pairs # <<>> /\ Pulled = Len(pairs)) => (replies[Len(replies)] \in {None, List(<<>>)} /\ pairs[Len(pairs)][2] = 0)

C16_Witness ==
    /\ pc = "in_test"
    /\ Len(executed) = 2
    /\ Len(replies) = 2
    /\ batch = <<"c">>
    /\ pos = 1
    /\ Pulled = 3

\* C17 (as claimed): pytest_collection_finish records every collected test
\* under its nodeid and sends one collectionfinish request whose node_ids is
\* the list of the collected nodeids in collection order, one per test.
C17_CollectionFinish ==
    /\ pc # "collection_finish" => (Len(SelectSeq(sent, LAMBDA n : n = "collectionfinish")) = 1 /\ \A i \in DOMAIN items : items[i] \in DOMAIN collection)
    /\ pc = "collectionfinish_wait" => payload = List(items)

\* C18: a call of message sends one request, named message, sends nothing
\* more while it waits for the reply, and returns None whatever the reply
\* (other than "die") is.
C18_MessageOneRequest ==
    [][/\ message_ret \in {Unset, None}
       /\ message_ret' \in {Unset, None}
       /\ pc \in MessageWaits => sent' = sent
       /\ (pc \notin MessageWaits /\ pc' \in MessageWaits) => (sent' = Append(sent, "message") /\ outstanding' = 1)
       /\ (pc \in MessageWaits /\ pc' \notin (MessageWaits \cup {"killed"})) => (outstanding' = 0 /\ (recv' # Die => message_ret' = None))]_vars

C18_Witness ==
    /\ message_ret = None
    /\ recv = Other
    /\ result = Other
    /\ sent[Len(sent)] = "message"
    /\ pc = "check_quit"

\* C19 (as claimed): in the payload of runtest_logreport the result
\* attribute, when there is one, is None whatever it was, and every other
\* attribute that was a path is its string.
C19_ResultNulled ==
    pc = "logreport_wait" =>
        /\ "result" \in DOMAIN payload => payload["result"] = NoneVal
        /\ \A f \in DOMAIN payload \ {"result"} : report[f].kind = "path" => payload[f] = ToStr(report[f])

\* C20 (as claimed): pytest_internalerror sends one internalerror request
\* whose message is the marker followed by the final line of the error text,
\* and logs the full text.
C20_ShortMessage ==
    pc = "internalerror_wait" =>
        /\ payload = <<Marker>> \o LastLine(Strip(excrepr))
        /\ Len(SelectSeq(sent, LAMBDA n : n = "internalerror")) = 1
        /\ logged = Prefixed(excrepr)

\* the disk list after the reconfigure form has applied the disk changes:
\* a 'delete' removes the row of the disk's filename, an 'add' appends
RECURSIVE ApplyChanges(_, _)
ApplyChanges(disks, disk_changes) ==
    IF disk_changes = <<>> THEN disks
    ELSE LET change == Head(disk_changes) IN
         ApplyChanges(IF change.action = "delete"
                      THEN SelectSeq(disks, LAMBDA disk : disk.filename # change.disk.filename)
                      ELSE Append(disks, change.disk),
                      Tail(disk_changes))

\* the disk changes of one action
ChangesOf(action) == SelectSeq(changes["disks"], LAMBDA change : change.action = action)

\* C21 (as claimed): delete_disk removes the one disk of the given filename,
\* or the disk at the given index for every valid index, 0 included, and
\* leaves the others in order; it raises TypeError only when neither a
\* filename nor an index was given.
C21_DeleteDisk ==
    call.op = "delete_disk" =>
        LET before == call.before
            after == other_configuration.disks
            named == {i \in DOMAIN before : before[i].filename = call.filename} IN
        /\ (call.filename # NoFilename /\ named # {}) =>
               (call.raised = "" /\ \E i \in named : after = RemoveAt(before, i))
        /\ (call.filename = NoFilename /\ call.index # <<>> /\ call.index[1] >= 0 /\ call.index[1] < Len(before)) =>
               (call.raised = "" /\ after = RemoveAt(before, call.index[1] + 1))
        /\ call.raised = "TypeError" => (call.filename = NoFilename /\ call.index = <<>>)

\* C22 (as claimed): the changes from a configuration to an edited copy of
\* it hold one 'add' per added disk and one 'delete' per deleted disk, and
\* applying them to the configuration's disks gives the copy's disks.
C22_ChangesReachOther ==
    pc = "vm_changes" =>
        LET c == configuration.disks
            o == other_configuration.disks IN
        /\ Len(ChangesOf("add")) = Len(SelectSeq(o, LAMBDA disk : disk.filename = NoFilename))
        /\ Len(ChangesOf("delete")) = Len(SelectSeq(c, LAMBDA disk : \A i \in DOMAIN o : o[i].filename # disk.filename))
        /\ ApplyChanges(c, changes["disks"]) = o

\* C23 (as claimed): between two configurations that compare equal,
\* get_changes_to_fill reports no cpu or memory key and no disk change.
C23_EqualMeansNoChanges ==
    (pc = "vm_changes" /\ ConfigEq(configuration, other_configuration)) =>
        (DOMAIN changes = {"disks"} /\ changes["disks"] = <<>>)

\* the last request sent, "" before the first
LastSent(requests) == IF requests = <<>> THEN "" ELSE requests[Len(requests)]

\* C24: shutdown sends the message request and then the shutdown request,
\* in that order; it sets the quit flag only when the reply to the shutdown
\* request has arrived, and then it does; a "die" reply to either request
\* leaves the flag as it was, and after a "die" reply to the message
\* request no shutdown request is sent.
C24_ShutdownOrder ==
    [][/\ (pc' = "shutdown_message_wait" /\ pc # pc') => (sent' = Append(sent, "message") /\ payload' = Str("shutting down"))
       /\ (pc' = "shutdown_wait" /\ pc # pc') => (pc = "shutdown_send" /\ recv # Die /\ sent' = Append(sent, "shutdown") /\ LastSent(sent) = "message")
       /\ (pc \in {"sessionfinish", "shutdown_message_wait", "shutdown_send", "shutdown_wait"} /\ quit_signaled' # quit_signaled)
              => (pc = "shutdown_wait" /\ pc' = "main_done" /\ recv' # Die /\ quit_signaled')
       /\ (pc = "shutdown_wait" /\ pc' = "main_done") => quit_signaled'
       /\ (pc \in {"shutdown_message_wait", "shutdown_wait"} /\ recv' = Die)
              => (pc' = "exited" /\ quit_signaled' = quit_signaled /\ sent' = sent)
       /\ (pc = "exited" /\ LastSent(sent) = "message") => ShutdownSent = 0]_vars

C24_Witness ==
    /\ pc = "exited"
    /\ recv = Die
    /\ Len(sent) >= 2
    /\ sent[Len(sent)] = "shutdown"
    /\ sent[Len(sent) - 1] = "message"
    /\ ~quit_signaled

\* C25: once the quit flag is set, no need_tests request is sent, no pair is
\* yielded and no test begins; the only requests still sent are those of
\* the test that is running, the messages of handle_quit and shutdown, and
\* the shutdown request, so the identifiers that are pending are neither
\* executed nor reported.
C25_PendingDropped ==
    [][quit_signaled =>
          /\ executed' = executed
          /\ pairs' = pairs
          /\ replies' = replies
          /\ sent' # sent =>
                \/ LastSent(sent') = "runtest_logstart" /\ payload' = Str(NodeIdOf(executed[Len(executed)]))
                \/ LastSent(sent') = "runtest_logreport" /\ pc = "in_test"
                \/ LastSent(sent') = "message" /\ payload' \in {Str("shutting down"), Str("shutting down after the current test due to QUIT signal")}
                \/ LastSent(sent') = "shutdown" /\ payload' = None]_vars

C25_Witness ==
    /\ loop_exit = "break"
    /\ pc = "main_done"
    /\ next_node # 0
    /\ pos < Len(batch)
    /\ Len(executed) + 2 = Handed(Len(replies))

\* C26: when the lookup raises KeyError after at least one identifier was
\* found, the item found last is pending: it was not yielded as the item of
\* a pair and is not executed, although the master handed it out.
C26_PendingLost ==
    (exc = "KeyError" /\ Pulled >= 1) =>
        /\ pc = "raised"
        /\ Pulled = Len(pairs) + 1
        /\ Len(executed) <= Len(pairs)
        /\ NodeIdOf(run_node) = HandedIds(Len(replies))[Pulled]
        /\ NodeIdOf(run_node) \in DOMAIN collection
        /\ (pairs # <<>> => pairs[Len(pairs)][2] = run_node)

C26_Witness ==
    /\ exc = "KeyError"
    /\ ~collectonly
    /\ Pulled = 2
    /\ Len(executed) = 1
    /\ Len(pairs) = 1

\* C27: for the reply "ack" to a need_tests request send_event returns None
\* and the pull loop ends as it does for an empty list: before the first
\* item nothing is yielded, otherwise the pending item is yielded with the
\* 'no next' marker; no need_tests request follows.
C27_AckEndsPulling ==
    [][/\ (pc \in {"need_first_wait", "need_next_wait"} /\ send_event_recv /\ recv' \in {Ack, List(<<>>)}) =>
              /\ recv' = Ack => (result' = None /\ replies' = Append(replies, None))
              /\ IF pc = "need_first_wait"
                 THEN pairs' = pairs /\ pc' = "loop_return" /\ loop_exit' = "exhausted"
                 ELSE pairs' = Append(pairs, <<run_node, 0>>) /\ pc' = "body"
       /\ (replies # <<>> /\ replies[Len(replies)] = None /\ sent' # sent) => LastSent(sent') # "need_tests"]_vars

C27_Witness ==
    /\ recv = Ack
    /\ result = None
    /\ pc = "body"
    /\ Len(replies) = 2
    /\ replies[2] = None
    /\ Len(pairs) = 2
    /\ pairs[2][2] = 0

\* C28: in collect-only mode no test is executed and no runtest request is
\* sent; the loop body of every pair yielded sends one message request that
\* carries the nodeid of the pair's item, and goes on to the check of the
\* quit flag when the reply has arrived.
C28_CollectOnly ==
    [][collectonly =>
          /\ executed' = <<>>
          /\ pc' \notin {"in_test", "logstart_wait", "logreport_wait"}
          /\ pairs' # pairs => (pc' = "body" /\ Len(pairs') = Len(pairs) + 1)
          /\ (pc = "body" /\ pc' \notin {"body", "killed"}) =>
                 (pc' = "message_wait" /\ sent' = Append(sent, "message") /\ payload' = Str(NodeIdOf(pairs[Len(pairs)][1])))
          /\ (pc = "message_wait" /\ pc' \notin {"message_wait", "killed", "exited"}) => (pc' = "check_quit" /\ pairs' = pairs)
          /\ (loop_exit = "" /\ sent' # sent /\ LastSent(sent') = "message") => pc = "body"
          /\ sent' # sent => LastSent(sent') \in {"collectionfinish", "need_tests", "message", "shutdown"}]_vars

C28_Witness ==
    /\ collectonly
    /\ loop_exit = "exhausted"
    /\ PairIds = <<(<<"b", "a">>), (<<"a", "b">>), (<<"b", "None">>)>>
    /\ Len(SelectSeq(sent, LAMBDA n : n = "message")) = 4
    /\ pc = "finished"

====
